---- MODULE Spec2Model ----
(***************************************************************************)
(* create_lab_notebook of ai_scientist/lab_notebook.py as a state machine. *)
(*                                                                         *)
(* Text is a sequence of tokens.  The tokens that matter to the code are   *)
(*   "FM"  the fence  ```markdown                                          *)
(*   "FP"  a fence with another info string, ```python                     *)
(*   "F"   a bare fence  ```                                               *)
(*   "D"   the stop phrase  I am done                                      *)
(*   "n"   a line feed, "r" a carriage return (both whitespace)            *)
(*   "a", "b"  any other text                                              *)
(* The file system, the text LLM and the vision client are the inputs: the *)
(* file system and the responses the text LLM may give are drawn in Init,  *)
(* what each call returns is drawn when the call is made.                  *)
(***************************************************************************)
EXTENDS Integers, Sequences, FiniteSets, TLC

\* ------------------------------------------------------------- bounds
\* n_notebook_reflections ranges over 0..MaxReflections
MaxReflections == 2
\* the figures directory holds up to MaxPlots .png files
MaxPlots == 2

\* ------------------------------------------------------------- values
\* a file that does not exist
NoFile == <<"<no file>">>
\* a directory that does not exist
NoDir == << <<"<no dir>", "">> >>
\* re.search returned None
NoMatch == <<"<no match>">>
\* a local variable not yet assigned
Unset == <<"<unset>">>
\* the value an LLM call draws when it raises instead of returning
Raises == <<"<raises>">>

SummaryKeys == <<"BASELINE_SUMMARY", "RESEARCH_SUMMARY", "ABLATION_SUMMARY">>

\* what a summary file can be: missing, a JSON document, text that is not
\* JSON, bytes that are not text in the locale's encoding
SummaryStates == {"absent", "valid", "malformed", "undecodable"}

EmptyObject == "{}"

NoDescriptionFound == "No description found"

NoDescriptionsAvailable == <<"No descriptions available.">>

NoAggregator == "No aggregator script found."

\* ------------------------------------------------------- pure functions
Min(S) == CHOOSE x \in S : \A y \in S : x <= y

Max(S) == CHOOSE x \in S : \A y \in S : x >= y

IsSpace(t) == t \in {"n", "r"}

\* str.strip()
Strip(s) ==
    LET keep == {k \in 1..Len(s) : ~IsSpace(s[k])}
    IN  IF keep = {} THEN <<>> ELSE SubSeq(s, Min(keep), Max(keep))

\* a token that holds three backticks
IsFence(t) == t \in {"FM", "FP", "F"}

\* re.search(r"```markdown(.*?)```", s, re.DOTALL): group(1) of the leftmost
\* match, the shortest one from there, or NoMatch
SearchMarkdown(s) ==
    LET opens == {p \in 1..Len(s) :
                     /\ s[p] = "FM"
                     /\ \E q \in (p + 1)..Len(s) : IsFence(s[q])}
    IN  IF opens = {} THEN NoMatch
        ELSE LET p == Min(opens)
                 q == Min({k \in (p + 1)..Len(s) : IsFence(s[k])})
             IN  SubSeq(s, p + 1, q - 1)

\* "I am done" in s
HasStopPhrase(s) == \E k \in 1..Len(s) : s[k] = "D"

\* f.read() of a file opened in text mode: "\r\n" and "\r" read as "\n"
RECURSIVE ReadText(_)
ReadText(s) ==
    IF s = <<>> THEN <<>>
    ELSE IF Head(s) = "r"
         THEN <<"n">> \o ReadText(IF Len(s) > 1 /\ s[2] = "n"
                                  THEN Tail(Tail(s)) ELSE Tail(s))
         ELSE <<Head(s)>> \o ReadText(Tail(s))

\* str.lower() of a file name's extension
Lower(ext) == IF ext = "PNG" THEN "png" ELSE ext

\* fplot.lower().endswith(".png"); a file name is <<stem, extension>>
IsPng(fname) == Lower(fname[2]) = "png"

RECURSIVE SelectPng(_)
\* the loop over os.listdir(figures_dir) that keeps the .png names, in order
SelectPng(listing) ==
    IF listing = <<>> THEN <<>>
    ELSE IF IsPng(Head(listing))
         THEN <<Head(listing)>> \o SelectPng(Tail(listing))
         ELSE SelectPng(Tail(listing))

\* the text of a file name
NameText(fname) == <<fname[1], ".", fname[2]>>

\* f"{fname}: {desc_text}"
DescriptionLine(fname, desc_text) == NameText(fname) \o <<": ", desc_text>>

RECURSIVE JoinNames(_)
\* ", ".join(plot_names)
JoinNames(names) ==
    IF names = <<>> THEN <<>>
    ELSE IF Len(names) = 1 THEN NameText(Head(names))
         ELSE NameText(Head(names)) \o <<", ">> \o JoinNames(Tail(names))

\* ------------------------------------------------------------- inputs
\* the j-th .png file of the figures directory; every second one is upper case
Png(j) == <<ToString(j), IF j % 2 = 0 THEN "PNG" ELSE "png">>

Notes == <<"notes", "txt">>

\* k .png files and one file that is no plot, as os.listdir may return them
ListingUp(k) == [j \in 1..(k + 1) |-> IF j <= k THEN Png(j) ELSE Notes]

ListingDown(k) == [j \in 1..(k + 1) |-> IF j = 1 THEN Notes ELSE Png(k + 2 - j)]

Listings == {ListingUp(k) : k \in 0..MaxPlots} \cup {ListingDown(k) : k \in 0..MaxPlots}

\* the content of a lab_notebook.md left by an earlier run
OldNotebook == <<"b", "n">>

AllValid == [k \in DOMAIN SummaryKeys |-> "valid"]

\* base_folder before the call
FsBase ==
    [figures |-> ListingUp(MaxPlots), research_idea |-> TRUE, idea |-> TRUE,
     summaries |-> AllValid, aggregator |-> TRUE,
     notebook_folder |-> TRUE, notebook |-> OldNotebook]

\* every combination of present and absent inputs
FsPresence ==
    {[FsBase EXCEPT !.figures = fg, !.research_idea = ri, !.idea = im,
                    !.summaries = sm, !.aggregator = ag] :
        fg \in {NoDir, ListingUp(MaxPlots)}, ri \in BOOLEAN, im \in BOOLEAN,
        sm \in [DOMAIN SummaryKeys -> {"absent", "valid"}], ag \in BOOLEAN}

\* every combination of summary files
FsSummaries == {[FsBase EXCEPT !.summaries = sm] : sm \in [DOMAIN SummaryKeys -> SummaryStates]}

\* every figures directory
FsFigures == {[FsBase EXCEPT !.figures = fg] : fg \in Listings}

\* every earlier state of the notebook folder
FsNotebook ==
    {[FsBase EXCEPT !.notebook_folder = nf, !.notebook = nb, !.figures = fg] :
        nf \in BOOLEAN, nb \in {NoFile, OldNotebook}, fg \in {ListingUp(0), ListingUp(1)}}
    \ {[FsBase EXCEPT !.notebook_folder = FALSE, !.notebook = OldNotebook, !.figures = fg] :
        fg \in {ListingUp(0), ListingUp(1)}}

FsStates == FsPresence \cup FsSummaries \cup FsFigures \cup FsNotebook

\* responses of the text LLM: no block, a block, a block whose content does
\* not read back as written, the stop phrase
BasicResponses ==
    { <<"a">>,
      <<"FM", "n", "a", "n", "F">>,
      <<"FM", "a", "r", "b", "F">>,
      <<"D">> }

\* and: another block, a block with nested fenced code, several blocks, a
\* fence left open, the stop phrase beside a block, an empty block, text
\* around a block
Responses ==
    BasicResponses \cup
    { <<"FM", "n", "b", "n", "F">>,
      <<"FM", "n", "a", "n", "FP", "b", "F", "n", "b", "n", "F">>,
      <<"FP", "b", "F", "n", "FM", "a", "F">>,
      <<"FM", "a", "F", "n", "FM", "b", "F">>,
      <<"FM", "a">>,
      <<"D", "FM", "b", "F">>,
      <<"FM", "n", "F">>,
      <<"a", "FM", "b", "n", "F", "a">> }

\* what generate_vlm_img_review gives for one image: None or an empty dict, a
\* dict without "Img_description", a dict with it; "vanished" is an image
\* that no longer exists when its turn comes
VlmReturned == {"nothing", "nokey", "described", "vanished"}

\* the vision client over k images: create_vlm_client raises, every image is
\* handled, or a call raises after some were
VlmRuns(k) ==
    {Raises} \cup [1..k -> VlmReturned]
    \cup UNION {{Append(p, "raise") : p \in [1..m -> VlmReturned]} : m \in 0..(k - 1)}

\* -------------------------------------------------------------- state
VARIABLES
    fs,                      \* base_folder as it was at the call
    llm,                     \* the responses the text LLM may give
    n_notebook_reflections,
    pc,                      \* the statement to run next, or where the run ended
    result,                  \* "none" while running; "True", "False"; "raised"
                             \* when an exception left the function
    exception,               \* the exception that ended the run, if one did
    notebook_folder,         \* whether <base_folder>/notebook exists
    notebook_file,           \* the content of notebook/lab_notebook.md, or NoFile
    idea_text, loaded_summaries, current_notebook, plot_names, aggregator_code,
    vlm_returned,            \* what the vision client did in this run
    plot_descriptions_str,   \* the lines that "\n".join puts together
    combined_prompt,
    response, updated_notebook, i, reflection_response, reflected_notebook,
    llm_calls,               \* calls of get_response_from_llm
    reflection_calls         \* those made in the reflection loop

vars ==
    <<fs, llm, n_notebook_reflections, pc, result, exception, notebook_folder,
      notebook_file, idea_text, loaded_summaries, current_notebook, plot_names,
      aggregator_code, vlm_returned, plot_descriptions_str, combined_prompt,
      response, updated_notebook, i, reflection_response, reflected_notebook,
      llm_calls, reflection_calls>>

inputs == <<fs, llm, n_notebook_reflections>>

disk == <<notebook_folder, notebook_file>>

gathered ==
    <<idea_text, loaded_summaries, plot_names, aggregator_code, vlm_returned,
      plot_descriptions_str>>

looped == <<i, reflection_response, reflected_notebook>>

calls == <<llm_calls, reflection_calls>>

UnsetPrompt ==
    [idea_text |-> "unset", summaries |-> <<>>, aggregator_code |-> "unset",
     plot_list |-> Unset, current_notebook |-> Unset, plot_descriptions |-> <<Unset>>]

\* the state at the call, for a file system, a text LLM and a number of
\* reflections
InitWith(fss, llms, ns) ==
    /\ fs \in fss
    /\ llm \in llms
    /\ n_notebook_reflections \in ns
    /\ pc = "cleanup"
    /\ result = "none"
    /\ exception = "none"
    /\ notebook_folder = fs.notebook_folder
    /\ notebook_file = fs.notebook
    /\ idea_text = "unset"
    /\ loaded_summaries = <<>>
    /\ current_notebook = Unset
    /\ plot_names = <<>>
    /\ aggregator_code = "unset"
    /\ vlm_returned = Unset
    /\ plot_descriptions_str = <<Unset>>
    /\ combined_prompt = UnsetPrompt
    /\ response = Unset
    /\ updated_notebook = Unset
    /\ i = -1
    /\ reflection_response = Unset
    /\ reflected_notebook = Unset
    /\ llm_calls = 0
    /\ reflection_calls = 0

Init == InitWith(FsStates, {BasicResponses}, 0..MaxReflections)

InitLoop == InitWith(FsNotebook, {Responses}, 0..MaxReflections)

\* ------------------------------------------------------------ helpers
\* the statements in program order
Steps ==
    <<"cleanup", "load_idea", "load_summaries", "read_notebook", "gather_plots",
      "load_aggregator", "describe_plots", "create_client", "initial_call",
      "extract", "save_initial", "loop_head", "reflect_call", "check_stop",
      "reflect_extract", "compare", "return">>

Rank(step) == CHOOSE k \in DOMAIN Steps : Steps[k] = step

\* the run is past `step`: it ran to its end
Past(step) == Rank(pc) > Rank(step)

Running == result = "none"

\* the except clause of the function: the exception is logged, False returned
ReturnFalseOn(exc) ==
    /\ result' = "False"
    /\ exception' = exc
    /\ pc' = pc

\* an exception outside the try statement leaves the function
Escapes(exc) ==
    /\ result' = "raised"
    /\ exception' = exc
    /\ pc' = pc

Goto(step) ==
    /\ pc' = step
    /\ UNCHANGED <<result, exception>>

\* ------------------------------------------------------------ actions
\* mutant: the notebook folder of an earlier run is kept
NotebookKept == notebook_file

\* lab_notebook.md once the notebook folder was removed and made again
NotebookAfterCleanup == NoFile

\* rmtree of an existing notebook folder, makedirs, copytree of figures/
Cleanup ==
    /\ Running /\ pc = "cleanup"
    /\ fs.figures # NoDir
    /\ notebook_folder' = TRUE
    /\ notebook_file' = NotebookAfterCleanup
    /\ Goto("load_idea")
    /\ UNCHANGED <<inputs, gathered, current_notebook, combined_prompt, response,
                   updated_notebook, looped, calls>>

\* one of the three raises: copytree when figures/ does not exist, any of them
\* on an operating system error
CleanupRaises ==
    /\ Running /\ pc = "cleanup"
    /\ \E at \in {"rmtree", "makedirs", "copytree"} :
          /\ at = "rmtree" => notebook_folder
          /\ IF fs.figures = NoDir /\ at = "copytree"
             THEN Escapes("FileNotFoundError")
             ELSE Escapes("OSError")
          /\ notebook_folder' = IF at = "rmtree" THEN notebook_folder
                                ELSE at = "copytree"
          /\ IF at = "rmtree"
             THEN notebook_file' \in {notebook_file, NotebookAfterCleanup}
             ELSE notebook_file' = NotebookAfterCleanup
    /\ UNCHANGED <<inputs, gathered, current_notebook, combined_prompt, response,
                   updated_notebook, looped, calls>>

\* research_idea.md, else idea.md, else ""
LoadIdea ==
    /\ Running /\ pc = "load_idea"
    /\ idea_text' = IF fs.research_idea THEN "research_idea.md"
                    ELSE IF fs.idea THEN "idea.md" ELSE ""
    /\ Goto("load_summaries")
    /\ UNCHANGED <<inputs, disk, loaded_summaries, plot_names, aggregator_code,
                   vlm_returned, plot_descriptions_str, current_notebook,
                   combined_prompt, response, updated_notebook, looped, calls>>

\* what one summary file loads as
LoadedSummary(k) ==
    <<SummaryKeys[k], IF fs.summaries[k] = "valid" THEN "data" ELSE EmptyObject>>

\* the loop over summary_files: json.load of a file that is not text raises
\* UnicodeDecodeError, which is no JSONDecodeError
LoadSummaries ==
    /\ Running /\ pc = "load_summaries"
    /\ LET bad == {k \in DOMAIN SummaryKeys : fs.summaries[k] = "undecodable"}
       IN  IF bad = {}
           THEN /\ loaded_summaries' = [k \in DOMAIN SummaryKeys |-> LoadedSummary(k)]
                /\ Goto("read_notebook")
           ELSE /\ loaded_summaries' = [k \in 1..(Min(bad) - 1) |-> LoadedSummary(k)]
                /\ ReturnFalseOn("UnicodeDecodeError")
    /\ UNCHANGED <<inputs, disk, idea_text, plot_names, aggregator_code,
                   vlm_returned, plot_descriptions_str, current_notebook,
                   combined_prompt, response, updated_notebook, looped, calls>>

\* the notebook as it is on disk, else ""
ReadNotebook ==
    /\ Running /\ pc = "read_notebook"
    /\ current_notebook' = IF notebook_file # NoFile THEN ReadText(notebook_file)
                           ELSE <<>>
    /\ Goto("gather_plots")
    /\ UNCHANGED <<inputs, disk, gathered, combined_prompt, response,
                   updated_notebook, looped, calls>>

GatherPlots ==
    /\ Running /\ pc = "gather_plots"
    /\ plot_names' = IF fs.figures # NoDir THEN SelectPng(fs.figures) ELSE <<>>
    /\ Goto("load_aggregator")
    /\ UNCHANGED <<inputs, disk, idea_text, loaded_summaries, aggregator_code,
                   vlm_returned, plot_descriptions_str, current_notebook,
                   combined_prompt, response, updated_notebook, looped, calls>>

LoadAggregator ==
    /\ Running /\ pc = "load_aggregator"
    /\ aggregator_code' = IF fs.aggregator THEN "auto_plot_aggregator.py"
                          ELSE NoAggregator
    /\ Goto("describe_plots")
    /\ UNCHANGED <<inputs, disk, idea_text, loaded_summaries, plot_names,
                   vlm_returned, plot_descriptions_str, current_notebook,
                   combined_prompt, response, updated_notebook, looped, calls>>

\* desc_map.get(fname, "No description found") after the loop over the plots
DescriptionText(returned) ==
    IF returned = "described" THEN "Img_description" ELSE NoDescriptionFound

RECURSIVE LinesOfHandled(_, _)
LinesOfHandled(names, returned) ==
    IF names = <<>> THEN <<>>
    ELSE IF Head(returned) = "vanished"
         THEN LinesOfHandled(Tail(names), Tail(returned))
         ELSE <<DescriptionLine(Head(names), DescriptionText(Head(returned)))>>
              \o LinesOfHandled(Tail(names), Tail(returned))

\* mutant: the lines are made from desc_map, which has no entry for an image
\* that was skipped
DescriptionLinesOfMap(names, returned) == LinesOfHandled(names, returned)

\* plot_descriptions_list: one line for each name of plot_names, in its order
DescriptionLines(names, returned) ==
    [j \in DOMAIN names |-> DescriptionLine(names[j], DescriptionText(returned[j]))]

\* whether the vision client raised in this run
VlmRaised(run) == run = Raises \/ (run # <<>> /\ run[Len(run)] = "raise")

\* the try statement around the vision client
PlotDescriptions(names, run) ==
    IF VlmRaised(run) THEN <<NoDescriptionsAvailable>>
    ELSE DescriptionLines(names, run)

DescribePlots ==
    /\ Running /\ pc = "describe_plots"
    /\ \E run \in VlmRuns(Len(plot_names)) :
          /\ vlm_returned' = run
          /\ plot_descriptions_str' = PlotDescriptions(plot_names, run)
    /\ Goto("create_client")
    /\ UNCHANGED <<inputs, disk, idea_text, loaded_summaries, plot_names,
                   aggregator_code, current_notebook, combined_prompt, response,
                   updated_notebook, looped, calls>>

CreateClient ==
    /\ Running /\ pc = "create_client"
    /\ Goto("initial_call")
    /\ UNCHANGED <<inputs, disk, gathered, current_notebook, combined_prompt,
                   response, updated_notebook, looped, calls>>

\* notebook_prompt.format(...)
FormatPrompt ==
    [idea_text |-> idea_text, summaries |-> loaded_summaries,
     aggregator_code |-> aggregator_code, plot_list |-> JoinNames(plot_names),
     current_notebook |-> current_notebook,
     plot_descriptions |-> plot_descriptions_str]

\* the first call of the text LLM: it answers or raises
InitialCall ==
    /\ Running /\ pc = "initial_call"
    /\ combined_prompt' = FormatPrompt
    /\ llm_calls' = llm_calls + 1
    /\ \E r \in llm \cup {Raises} :
          IF r = Raises
          THEN /\ ReturnFalseOn("Exception")
               /\ UNCHANGED response
          ELSE /\ response' = r
               /\ Goto("extract")
    /\ UNCHANGED <<inputs, disk, gathered, current_notebook, updated_notebook,
                   looped, reflection_calls>>

ExtractInitial ==
    /\ Running /\ pc = "extract"
    /\ LET notebook_code_match == SearchMarkdown(response)
       IN  IF notebook_code_match = NoMatch
           THEN /\ result' = "False"
                /\ UNCHANGED <<pc, exception, updated_notebook>>
           ELSE /\ updated_notebook' = Strip(notebook_code_match)
                /\ Goto("save_initial")
    /\ UNCHANGED <<inputs, disk, gathered, current_notebook, combined_prompt,
                   response, looped, calls>>

\* save_notebook: the file is opened for writing and written whole; text mode
\* on POSIX writes the characters as they are.  A write that fails is an
\* exception of the try block (ExceptionInTry) and leaves the file as it was
SaveNotebook(notebook_content) == notebook_file' = notebook_content

SaveInitial ==
    /\ Running /\ pc = "save_initial"
    /\ SaveNotebook(updated_notebook)
    /\ Goto("loop_head")
    /\ UNCHANGED <<inputs, notebook_folder, gathered, current_notebook,
                   combined_prompt, response, updated_notebook, looped, calls>>

\* mutant: the loop runs one pass more
LoopContinuesOneMore(next, n) == next <= n

\* range(n_notebook_reflections) has a next index
LoopContinues(next, n) == next < n

\* for i in range(...): the next pass begins by reading the file, or the loop
\* is over
LoopHead ==
    /\ Running /\ pc = "loop_head"
    /\ IF LoopContinues(i + 1, n_notebook_reflections)
       THEN /\ i' = i + 1
            /\ current_notebook' = ReadText(notebook_file)
            /\ Goto("reflect_call")
       ELSE /\ UNCHANGED <<i, current_notebook>>
            /\ Goto("return")
    /\ UNCHANGED <<inputs, disk, gathered, combined_prompt, response,
                   updated_notebook, reflection_response, reflected_notebook, calls>>

ReflectionCall ==
    /\ Running /\ pc = "reflect_call"
    /\ llm_calls' = llm_calls + 1
    /\ reflection_calls' = reflection_calls + 1
    /\ \E r \in llm \cup {Raises} :
          IF r = Raises
          THEN /\ ReturnFalseOn("Exception")
               /\ UNCHANGED reflection_response
          ELSE /\ reflection_response' = r
               /\ Goto("check_stop")
    /\ UNCHANGED <<inputs, disk, gathered, current_notebook, combined_prompt,
                   response, updated_notebook, i, reflected_notebook>>

CheckStop ==
    /\ Running /\ pc = "check_stop"
    /\ IF HasStopPhrase(reflection_response) THEN Goto("return")
       ELSE Goto("reflect_extract")
    /\ UNCHANGED <<inputs, disk, gathered, current_notebook, combined_prompt,
                   response, updated_notebook, looped, calls>>

\* mutant: the reflection pass searches its own response
ReflectionSourceOwn == reflection_response

\* the text the reflection pass searches for a notebook: the first response
ReflectionSource == response

ExtractReflection ==
    /\ Running /\ pc = "reflect_extract"
    /\ LET reflection_code_match == SearchMarkdown(ReflectionSource)
       IN  IF reflection_code_match = NoMatch
           THEN /\ result' = "False"
                /\ UNCHANGED <<pc, exception, reflected_notebook>>
           ELSE /\ reflected_notebook' = Strip(reflection_code_match)
                /\ Goto("compare")
    /\ UNCHANGED <<inputs, disk, gathered, current_notebook, combined_prompt,
                   response, updated_notebook, i, reflection_response, calls>>

\* a changed notebook is saved and the loop goes on, an unchanged one ends it
CompareAndSave ==
    /\ Running /\ pc = "compare"
    /\ IF reflected_notebook # current_notebook
       THEN /\ SaveNotebook(reflected_notebook)
            /\ Goto("loop_head")
       ELSE /\ UNCHANGED notebook_file
            /\ Goto("return")
    /\ UNCHANGED <<inputs, notebook_folder, gathered, current_notebook,
                   combined_prompt, response, updated_notebook, looped, calls>>

\* return osp.exists(notebook_file)
Return ==
    /\ Running /\ pc = "return"
    /\ result' = IF notebook_file # NoFile THEN "True" ELSE "False"
    /\ UNCHANGED <<pc, exception>>
    /\ UNCHANGED <<inputs, disk, gathered, current_notebook, combined_prompt,
                   response, updated_notebook, looped, calls>>

\* the statements of the try block where the operating system or a client
\* can raise: reading a file that exists, listing the figures, making the
\* client, writing the notebook
CanRaise ==
    \/ pc = "load_idea" /\ (fs.research_idea \/ fs.idea)
    \/ pc = "load_summaries" /\ \E k \in DOMAIN SummaryKeys : fs.summaries[k] # "absent"
    \/ pc = "gather_plots"
    \/ pc = "load_aggregator" /\ fs.aggregator
    \/ pc = "create_client"
    \/ pc = "save_initial"
    \/ pc = "loop_head" /\ LoopContinues(i + 1, n_notebook_reflections)
    \/ pc = "compare" /\ reflected_notebook # current_notebook

\* such an exception is caught by the function's except clause
ExceptionInTry ==
    /\ Running /\ CanRaise
    /\ ReturnFalseOn(IF pc = "create_client" THEN "Exception" ELSE "OSError")
    /\ UNCHANGED <<inputs, disk, gathered, current_notebook, combined_prompt,
                   response, updated_notebook, looped, calls>>

Next ==
    \/ Cleanup
    \/ CleanupRaises
    \/ LoadIdea
    \/ LoadSummaries
    \/ ReadNotebook
    \/ GatherPlots
    \/ LoadAggregator
    \/ DescribePlots
    \/ CreateClient
    \/ InitialCall
    \/ ExtractInitial
    \/ SaveInitial
    \/ LoopHead
    \/ ReflectionCall
    \/ CheckStop
    \/ ExtractReflection
    \/ CompareAndSave
    \/ Return
    \/ ExceptionInTry

\* every input file system, a text LLM of few words
Spec == Init /\ [][Next]_vars

\* few file systems, a text LLM with every kind of response; every call
\* returns or raises, so a run that can take a step takes one
SpecLoop == InitLoop /\ [][Next]_vars /\ WF_vars(Next)

\* ------------------------------------------------------------- claims
\* the notebook a response offers: group(1) of the search, stripped
Offered(s) == Strip(SearchMarkdown(s))

OffersNotebook(s) == SearchMarkdown(s) # NoMatch

\* the loop is over and the function at or past its return statement
LoopLeft == pc = "return"

C1_Bounded ==
    /\ reflection_calls <= n_notebook_reflections
    /\ llm_calls <= 1 + n_notebook_reflections
    /\ n_notebook_reflections = 0 => reflection_calls = 0
    /\ LoopLeft /\ reflection_calls < n_notebook_reflections
          => \/ HasStopPhrase(reflection_response)
             \/ reflected_notebook = current_notebook

\* C1: for every N >= 0 and every sequence of LLM responses the call ends, with
\* at most N reflection calls and 1 + N calls of the text LLM, none when N = 0;
\* a loop left before its N-th pass was left by the stop phrase or by the
\* no-change check (a failure return does not leave the loop, it ends the run)
C1_TerminatesWithinN == [](C1_Bounded) /\ <>(result # "none")

\* C1 witness: a run of all N >= 2 passes that returns True
C1_RanAllPasses ==
    /\ result = "True"
    /\ n_notebook_reflections >= 2
    /\ reflection_calls = n_notebook_reflections

\* a pass has run to its end: its response is reflection_response, the content
\* it read is current_notebook
PassDone == pc \in {"loop_head", "return"} /\ reflection_response # Unset

\* C2: a reflection pass whose response has no stop phrase and offers a
\* notebook that differs from the file's content leaves exactly that notebook
\* in lab_notebook.md
C2_ReflectionRevisesFile ==
    ( /\ PassDone
      /\ ~HasStopPhrase(reflection_response)
      /\ OffersNotebook(reflection_response)
      /\ Offered(reflection_response) # current_notebook )
    => notebook_file = Offered(reflection_response)

\* C3: the loop stops after a pass before the N-th if and only if the pass's
\* response has the stop phrase or offers the notebook already stored
C3_StopsIffStopOrUnchanged ==
    ( /\ PassDone
      /\ reflection_calls < n_notebook_reflections
      /\ HasStopPhrase(reflection_response) \/ OffersNotebook(reflection_response) )
    => ( LoopLeft <=> \/ HasStopPhrase(reflection_response)
                      \/ Offered(reflection_response) = current_notebook )

\* C4: no exception leaves create_lab_notebook
C4_NoExceptionEscapes == result # "raised"

\* C5: a missing input never makes the run fail, and the prompt has the empty
\* default in its place
C5_MissingInputsDefault ==
    /\ exception # "FileNotFoundError"
    /\ llm_calls >= 1 =>
          /\ ~fs.research_idea /\ ~fs.idea => combined_prompt.idea_text = ""
          /\ \A k \in DOMAIN SummaryKeys :
                fs.summaries[k] = "absent"
                   => combined_prompt.summaries[k] = <<SummaryKeys[k], EmptyObject>>
          /\ ~fs.aggregator => combined_prompt.aggregator_code = ""
          /\ fs.figures = NoDir => combined_prompt.plot_list = <<>>

\* C6: a summary file that is not valid JSON does not fail the run; its key
\* maps to an empty object, the other keys to what their files hold, and all
\* three keys are there
C6_InvalidSummaryIsEmpty ==
    /\ exception # "UnicodeDecodeError"
    /\ Past("load_summaries") =>
          /\ Len(loaded_summaries) = Len(SummaryKeys)
          /\ \A k \in DOMAIN SummaryKeys :
                loaded_summaries[k] =
                   <<SummaryKeys[k],
                     IF fs.summaries[k] = "valid" THEN "data" ELSE EmptyObject>>

RECURSIVE ClosingFence(_, _, _)
\* the place of the fence that closes a block whose content starts at k, a
\* fence with an info string opening a nested block; 0 if none does
ClosingFence(s, k, depth) ==
    IF k > Len(s) THEN 0
    ELSE IF s[k] = "F"
         THEN IF depth = 0 THEN k ELSE ClosingFence(s, k + 1, depth - 1)
         ELSE IF IsFence(s[k]) THEN ClosingFence(s, k + 1, depth + 1)
              ELSE ClosingFence(s, k + 1, depth)

\* the content of the first ```markdown block, up to its own closing fence
MarkdownBlock(s) ==
    LET opens == {p \in 1..Len(s) : s[p] = "FM"}
    IN  IF opens = {} THEN NoMatch
        ELSE LET p == Min(opens)
                 q == ClosingFence(s, p + 1, 0)
             IN  IF q = 0 THEN NoMatch ELSE SubSeq(s, p + 1, q - 1)

\* C7: the notebook taken from a response with a ```markdown block is the
\* content of that block up to its own closing fence, stripped, nested fenced
\* code included
C7_ExtractsWholeBlock ==
    Past("extract") /\ MarkdownBlock(response) # NoMatch
       => updated_notebook = Strip(MarkdownBlock(response))

\* the j-th line of the descriptions is the j-th plot's: its name, then the
\* description, "No description found" if the vision client gave none
LineOfPlot(line, j) ==
    /\ Len(line) = 5
    /\ SubSeq(line, 1, 3) = NameText(plot_names[j])
    /\ line[5] = IF vlm_returned[j] = "described" THEN "Img_description"
                 ELSE NoDescriptionFound

PairedWithPlots(lines) ==
    /\ Len(lines) = Len(plot_names)
    /\ \A j \in DOMAIN plot_names : LineOfPlot(lines[j], j)

\* C8 as claimed: whatever the vision client returns or raises, the prompt
\* holds one description line for each plot, in the order of the plot list
C8_AlwaysPaired ==
    llm_calls >= 1 =>
       /\ combined_prompt.plot_list = JoinNames(plot_names)
       /\ ~VlmRaised(vlm_returned)
       /\ PairedWithPlots(combined_prompt.plot_descriptions)

\* C8: when the vision client raised nothing the prompt holds one description
\* line for each plot, in the order of the plot list; when it raised, the one
\* line "No descriptions available."
C8_PairedUnlessRaised ==
    llm_calls >= 1 =>
       /\ combined_prompt.plot_list = JoinNames(plot_names)
       /\ IF VlmRaised(vlm_returned)
          THEN combined_prompt.plot_descriptions = <<NoDescriptionsAvailable>>
          ELSE PairedWithPlots(combined_prompt.plot_descriptions)

\* C8 witness: two plots or more, one described, one not, one skipped
C8_MixedDescriptions ==
    /\ llm_calls >= 1
    /\ Len(plot_names) >= 2
    /\ ~VlmRaised(vlm_returned)
    /\ \E j, k \in DOMAIN plot_names :
          /\ vlm_returned[j] = "described"
          /\ vlm_returned[k] \in {"nothing", "vanished"}

C10_NoBlockNoNotebook ==
    /\ result # "none" /\ response # Unset /\ ~OffersNotebook(response)
          => /\ result = "False"
             /\ reflection_calls = 0
             /\ notebook_file = NoFile
    /\ result = "True" => notebook_file # NoFile

\* C10 witness: a run over an earlier lab_notebook.md whose first response has
\* no block
C10_OldNotebookGone ==
    /\ result = "False"
    /\ response # Unset
    /\ ~OffersNotebook(response)
    /\ fs.notebook # NoFile
    /\ notebook_file = NoFile

====
